---- MODULE Spec2Model ----
(***************************************************************************)
(* dts-critic: checks a .d.ts file against the JavaScript package it       *)
(* describes (src/index.ts).                                               *)
(*                                                                         *)
(* Texts are sequences of tokens.  Inside a declaration or a JavaScript    *)
(* text two neighbouring tokens are separated by one blank, so the         *)
(* substring "export default" is the token "export" directly followed by   *)
(* the token "default".  Inside a file name or a package name the tokens   *)
(* are joined without a separator ("jquery" ".d.ts").  String.indexOf is   *)
(* modelled by the search for a contiguous run of tokens.                  *)
(***************************************************************************)
EXTENDS Integers, Sequences, FiniteSets, TLC

VARIABLES pc, hasCurl, dtsPath, sourcePath, dts, header, npm, srcFile,
          src, names, error, calls, result, dtsProps, jsProps

vars == <<pc, hasCurl, dtsPath, sourcePath, dts, header, npm, srcFile,
          src, names, error, calls, result, dtsProps, jsProps>>

(***************************************************************************)
(* Bounds of the model.                                                    *)
(***************************************************************************)
MaxDtsLen == 4

MaxSrcLen == 3

MaxPathLen == 3

(***************************************************************************)
(* Strings.                                                                *)
(***************************************************************************)
SeqsUpTo(S, n) == UNION {[1..k -> S] : k \in 0..n}

\* String.prototype.indexOf(pat): the first 0-based position of pat, or -1.
IndexOf(s, pat) ==
    LET hits == {i \in 0..(Len(s) - Len(pat)) : SubSeq(s, i + 1, i + Len(pat)) = pat}
    IN IF hits = {} THEN -1 ELSE CHOOSE i \in hits : \A j \in hits : i <= j

\* /declare module ['"]/.test(s)
DeclareModuleTest(s) ==
    \E i \in 1..(Len(s) - 1) : s[i] = "declare module" /\ s[i + 1] \in {"'", "\""}

(***************************************************************************)
(* isExistingSquatter, isRealExportDefault                                 *)
(***************************************************************************)
isExistingSquatterWithoutTitanium(name) ==
    \/ name = <<"atom">>
    \/ name = <<"ember__string">>
    \/ name = <<"fancybox">>
    \/ name = <<"jsqrcode">>
    \/ name = <<"node">>
    \/ name = <<"geojson">>

isExistingSquatter(name) ==
    \/ name = <<"atom">>
    \/ name = <<"ember__string">>
    \/ name = <<"fancybox">>
    \/ name = <<"jsqrcode">>
    \/ name = <<"node">>
    \/ name = <<"geojson">>
    \/ name = <<"titanium">>

isRealExportDefaultEqualsOnly(name) ==
    \/ name = <<"react-native">>
    \/ name = <<"ember-feature-flags">>
    \/ name = <<"material-ui-datatables">>

isRealExportDefault(name) ==
    \/ IndexOf(name, <<"react-native">>) > -1
    \/ name = <<"ember-feature-flags">>
    \/ name = <<"material-ui-datatables">>

(***************************************************************************)
(* checkSource: the kind of the Error it throws, "none" when it returns.   *)
(***************************************************************************)
checkSourceNoSentinels(name, d, s) ==
    IF /\ IndexOf(d, <<"export", "default">>) > -1
       /\ IndexOf(d, <<"export", "=">>) = -1
       /\ ~DeclareModuleTest(d)
       /\ ~isRealExportDefault(name)
       /\ IndexOf(s, <<"default">>) = -1
       /\ IndexOf(s, <<"__esModule">>) = -1
       /\ IndexOf(s, <<"react-side-effect">>) = -1
       /\ IndexOf(s, <<"@flow">>) = -1
       /\ IndexOf(s, <<"module.exports", "=", "require">>) = -1
    THEN "NoDefaultExport"
    ELSE "none"

checkSourceNoWrapperTest(name, d, s) ==
    IF /\ IndexOf(d, <<"export", "default">>) > -1
       /\ IndexOf(d, <<"export", "=">>) = -1
       /\ IndexOf(s, <<"524: A timeout occurred">>) = -1
       /\ IndexOf(s, <<"500 Server Error">>) = -1
       /\ IndexOf(s, <<"Cannot find package">>) = -1
       /\ IndexOf(s, <<"Rate exceeded">>) = -1
       /\ ~isRealExportDefault(name)
       /\ IndexOf(s, <<"default">>) = -1
       /\ IndexOf(s, <<"__esModule">>) = -1
       /\ IndexOf(s, <<"react-side-effect">>) = -1
       /\ IndexOf(s, <<"@flow">>) = -1
       /\ IndexOf(s, <<"module.exports", "=", "require">>) = -1
    THEN "NoDefaultExport"
    ELSE "none"

checkSource(name, d, s) ==
    IF /\ IndexOf(d, <<"export", "default">>) > -1
       /\ IndexOf(d, <<"export", "=">>) = -1
       /\ ~DeclareModuleTest(d)
       /\ IndexOf(s, <<"524: A timeout occurred">>) = -1
       /\ IndexOf(s, <<"500 Server Error">>) = -1
       /\ IndexOf(s, <<"Cannot find package">>) = -1
       /\ IndexOf(s, <<"Rate exceeded">>) = -1
       /\ ~isRealExportDefault(name)
       /\ IndexOf(s, <<"default">>) = -1
       /\ IndexOf(s, <<"__esModule">>) = -1
       /\ IndexOf(s, <<"react-side-effect">>) = -1
       /\ IndexOf(s, <<"@flow">>) = -1
       /\ IndexOf(s, <<"module.exports", "=", "require">>) = -1
    THEN "NoDefaultExport"
    ELSE "none"

(***************************************************************************)
(* Paths.  A path is a flag (does it start with "/") and the segments      *)
(* between its slashes; "" is the relative path with no segment.  A        *)
(* segment is a sequence of tokens: "index.d.ts" is <<"index", ".d.ts">>.  *)
(* Tokens that start with a dot are ExtTokens, the others contain no dot.  *)
(***************************************************************************)
ExtTokens == {".d.ts", ".js"}

\* process.cwd(): the tests run in the repository's directory
Cwd == << <<"home">>, <<"dts-critic">> >>

RECURSIVE normalize(_, _)
normalize(stack, segs) ==
    IF segs = <<>> THEN stack
    ELSE LET s == Head(segs)
         IN IF s = <<>> \/ s = <<".">> THEN normalize(stack, Tail(segs))
            ELSE IF s = <<"..">>
                 THEN normalize(IF stack = <<>> THEN <<>>
                                ELSE SubSeq(stack, 1, Len(stack) - 1), Tail(segs))
                 ELSE normalize(Append(stack, s), Tail(segs))

\* path.resolve(p): the segments of the absolute, normalized path
resolve(p) == normalize(IF p.abs THEN <<>> ELSE Cwd, p.segs)

\* path.dirname of a resolved path
dirname(r) == IF r = <<>> THEN <<>> ELSE SubSeq(r, 1, Len(r) - 1)

\* path.basename(r) of a resolved path
basename(r) == IF r = <<>> THEN <<>> ELSE r[Len(r)]

\* path.basename(r, ext): the suffix is cut off unless it is the whole base name
basenameExt(r, ext) ==
    LET b == basename(r)
    IN IF Len(b) > 1 /\ b[Len(b)] = ext THEN SubSeq(b, 1, Len(b) - 1) ELSE b

\* !!path.extname(r): the base name has a dot that is not its first character
hasExtension(r) ==
    LET b == basename(r)
    IN \E i \in 1..Len(b) : b[i] \in ExtTokens /\ (i > 1 \/ b[i] = ".d.ts")

findDtsNameNoIndexRule(p) == basenameExt(resolve(p), ".d.ts")

findDtsName(p) ==
    LET resolved == resolve(p)
        baseName == basenameExt(resolved, ".d.ts")
    IN IF baseName # <<>> /\ baseName # <<"index">>
       THEN baseName
       ELSE basename(dirname(resolved))

findSourceName(p) ==
    LET resolved == resolve(p)
    IN IF hasExtension(resolved) THEN basename(dirname(resolved)) ELSE basename(resolved)

(***************************************************************************)
(* Inputs of the checkSource specification.                                *)
(***************************************************************************)
DtsTokens == {"export", "default", "=", "declare module", "'", "\""}

SrcTokens == {"default", "__esModule", "react-side-effect", "@flow",
              "module.exports", "=", "require",
              "524: A timeout occurred", "500 Server Error",
              "Cannot find package", "Rate exceeded"}

\* sample texts: one per substring that checkSource searches, and none
DtsSamples ==
    {<<>>, <<"export", "default">>, <<"export", "default", "export", "=">>,
     <<"declare module", "'", "export", "default">>,
     <<"export", "default", "declare module", "\"">>}

SrcSamples ==
    {<<>>, <<"module.exports", "=", "require">>} \cup {<<t>> : t \in SrcTokens}

\* every declaration text against the sample JavaScript texts, and every
\* JavaScript text against the sample declaration texts
CheckSourceTexts ==
    (SeqsUpTo(DtsTokens, MaxDtsLen) \X SrcSamples)
        \cup (DtsSamples \X SeqsUpTo(SrcTokens, MaxSrcLen))

PackageNames == {<<"lodash">>, <<"x-", "react-native">>, <<"ember-feature-flags">>,
                 <<"material-ui-datatables">>}

NoPath == [abs |-> FALSE, segs |-> <<>>]

NoHeader == [present |-> FALSE, nonNpm |-> FALSE,
             libraryMajorVersion |-> 0, libraryMinorVersion |-> 0]

NoNpm == [kind |-> "error", versions |-> {}]

NoFile == [ok |-> FALSE, text |-> <<>>]

NoProps == [p \in {} |-> 0]

InitCheckSource ==
    /\ pc = "checkSource"
    /\ hasCurl = TRUE
    /\ dtsPath = NoPath
    /\ sourcePath = NoPath
    /\ \E t \in CheckSourceTexts : dts = t[1] /\ src = t[2]
    /\ header = NoHeader
    /\ npm = NoNpm
    /\ srcFile = NoFile
    /\ \E n \in PackageNames : names = [dts |-> n, src |-> n]
    /\ error = "none"
    /\ calls = <<>>
    /\ result = <<>>
    /\ dtsProps = NoProps
    /\ jsProps = {}

\* checkSource(names.dts, dts, src)
CheckSource ==
    /\ pc = "checkSource"
    /\ error' = checkSource(names.dts, dts, src)
    /\ pc' = IF error' = "none" THEN "done" ELSE "threw"
    /\ calls' = Append(calls, "checkSource")
    /\ UNCHANGED <<hasCurl, dtsPath, sourcePath, dts, header, npm, srcFile,
                   src, names, result, dtsProps, jsProps>>

NextCheckSource == CheckSource

SpecCheckSource == InitCheckSource /\ [][NextCheckSource]_vars

(***************************************************************************)
(* findNames.  The registry's answer for the package is npm: "package" (a  *)
(* document with a versions map), "error" (a document with an error key),  *)
(* "garbage" (no JSON: JSON.parse throws) or "unpublished" (a document     *)
(* with neither: Object.keys(npm.versions) throws inside the try block).   *)
(***************************************************************************)
\* semver.parse(v) mapped to major + "." + minor, "" for an unparsable key
majorMinor(v) == IF v.valid THEN <<v.major, v.minor>> ELSE <<>>

headerVersion(h) == <<h.libraryMajorVersion, h.libraryMinorVersion>>

\* does the try block of findNames run to its end
retrieveNpmSucceeds(n) == n.kind = "package"

findNamesCatchAlwaysThrows(p, sp, h, n) ==
    LET d == findDtsName(p)
    IN IF sp # NoPath
       THEN IF d # findSourceName(sp) THEN "NamesMismatch" ELSE "none"
       ELSE IF ~retrieveNpmSucceeds(n)
            THEN "NoMatchingNpmPackage"
            ELSE IF h.present /\ h.nonNpm /\ ~isExistingSquatter(d)
                 THEN "NonNpmHasMatchingPackage"
                 ELSE IF /\ h.present /\ ~h.nonNpm
                         /\ headerVersion(h) \notin {majorMinor(v) : v \in n.versions}
                      THEN "NoMatchingNpmVersion"
                      ELSE "none"

\* the kind of the Error findNames throws, "none" when it returns
findNamesError(p, sp, h, n) ==
    LET d == findDtsName(p)
    IN IF sp # NoPath
       THEN IF d # findSourceName(sp) THEN "NamesMismatch" ELSE "none"
       ELSE IF ~retrieveNpmSucceeds(n)
            THEN IF ~h.present \/ ~h.nonNpm THEN "NoMatchingNpmPackage" ELSE "none"
            ELSE IF h.present /\ h.nonNpm /\ ~isExistingSquatter(d)
                 THEN "NonNpmHasMatchingPackage"
                 ELSE IF /\ h.present /\ ~h.nonNpm
                         /\ headerVersion(h) \notin {majorMinor(v) : v \in n.versions}
                      THEN "NoMatchingNpmVersion"
                      ELSE "none"

\* the value findNames returns
findNamesResult(p, sp) ==
    [dts |-> findDtsName(p),
     src |-> IF sp # NoPath THEN findSourceName(sp)
             ELSE findDtsName(p)]

shouldCheckSourceAnyHeader(h) == h.present

\* dtsCritic: if (header && !header.nonNpm)
shouldCheckSource(h) == h.present /\ ~h.nonNpm

(***************************************************************************)
(* Inputs of a dtsCritic run.                                              *)
(***************************************************************************)
Rel(segs) == [abs |-> FALSE, segs |-> segs]

DtsPaths ==
    {Rel(<< <<n>>, <<"index", ".d.ts">> >>) :
        n \in {"atom", "ember__string", "fancybox", "jsqrcode", "node", "geojson",
               "titanium", "jquery"}}
    \cup {Rel(<< <<"testsource">>, <<"tslib", ".d.ts">> >>),
          Rel(<< <<"types">>, <<"x-", "react-native">>, <<"index", ".d.ts">> >>)}

SourcePaths ==
    {Rel(<< <<"jquery">>, <<"index", ".js">> >>),
     Rel(<< <<"node_modules">>, <<"tslib">> >>),
     Rel(<< <<"atom">>, <<"atom", ".js">> >>)}

Headers ==
    {[present |-> TRUE, nonNpm |-> b, libraryMajorVersion |-> 1, libraryMinorVersion |-> m] :
        b \in BOOLEAN, m \in {0, 1}}

VersionKeys ==
    {[valid |-> TRUE, major |-> 1, minor |-> 0, patch |-> 3],
     [valid |-> TRUE, major |-> 0, minor |-> 1, patch |-> 0],
     [valid |-> FALSE, major |-> 0, minor |-> 0, patch |-> 0]}

Registry ==
    {[kind |-> k, versions |-> {}] : k \in {"error", "garbage", "unpublished"}}
    \cup {[kind |-> "package", versions |-> vs] : vs \in SUBSET VersionKeys}

RunDts ==
    {<<>>, <<"export", "default">>, <<"export", "default", "export", "=">>,
     <<"declare module", "'", "export", "default">>}

RunSrc ==
    {<<"require">>, <<"module.exports", "=", "require">>, <<"Cannot find package">>}

Init ==
    /\ pc = "start"
    /\ hasCurl \in BOOLEAN
    /\ dtsPath \in DtsPaths
    /\ sourcePath \in SourcePaths \cup {NoPath}
    /\ dts \in RunDts
    /\ header \in Headers \cup {NoHeader}
    /\ npm \in Registry
    /\ srcFile \in {NoFile} \cup {[ok |-> TRUE, text |-> t] : t \in RunSrc}
    /\ src = <<>>
    /\ names = [dts |-> <<>>, src |-> <<>>]
    /\ error = "none"
    /\ calls = <<>>
    /\ result = <<>>
    /\ dtsProps = NoProps
    /\ jsProps = {}

\* dtsCritic up to the call of findNames: the curl check, the read of the
\* declaration and the parse of its header
Start ==
    /\ pc = "start"
    /\ IF ~hasCurl
       THEN pc' = "threw" /\ error' = "NoCurl"
       ELSE pc' = "findNames" /\ error' = error
    /\ UNCHANGED <<hasCurl, dtsPath, sourcePath, dts, header, npm, srcFile,
                   src, names, calls, result, dtsProps, jsProps>>

\* const names = findNames(dtsPath, sourcePath, header)
FindNames ==
    /\ pc = "findNames"
    /\ error' = findNamesError(dtsPath, sourcePath, header, npm)
    /\ calls' = Append(calls, "findNames")
    /\ IF error' # "none"
       THEN pc' = "threw" /\ names' = names
       ELSE /\ names' = findNamesResult(dtsPath, sourcePath)
            /\ pc' = IF shouldCheckSource(header) THEN "readSource" ELSE "done"
    /\ UNCHANGED <<hasCurl, dtsPath, sourcePath, dts, header, npm, srcFile,
                   src, result, dtsProps, jsProps>>

\* readSource(sourcePath, names.src, header): the local file or the download
ReadSource ==
    /\ pc = "readSource"
    /\ calls' = Append(calls, "readSource")
    /\ IF srcFile.ok
       THEN pc' = "checkSource" /\ src' = srcFile.text /\ error' = error
       ELSE pc' = "threw" /\ src' = src /\ error' = "ReadFailed"
    /\ UNCHANGED <<hasCurl, dtsPath, sourcePath, dts, header, npm, srcFile,
                   names, result, dtsProps, jsProps>>

Next == Start \/ FindNames \/ ReadSource \/ CheckSource

Spec == Init /\ [][Next]_vars

(***************************************************************************)
(* findDtsName on its own.                                                 *)
(***************************************************************************)
PathSegments ==
    {<<"index", ".d.ts">>, <<"jquery", ".d.ts">>, <<".d.ts">>, <<"index">>,
     <<"jquery">>, <<".">>, <<"..">>, <<>>}

\* a relative path does not begin with an empty segment (that is "/...")
Paths ==
    {p \in [abs : BOOLEAN, segs : SeqsUpTo(PathSegments, MaxPathLen)] :
        ~p.abs /\ p.segs # <<>> => p.segs[1] # <<>>}

InitFindDtsName ==
    /\ pc = "findDtsName"
    /\ hasCurl = TRUE
    /\ dtsPath \in Paths
    /\ sourcePath = NoPath
    /\ dts = <<>>
    /\ header = NoHeader
    /\ npm = NoNpm
    /\ srcFile = NoFile
    /\ src = <<>>
    /\ names = [dts |-> <<>>, src |-> <<>>]
    /\ error = "none"
    /\ calls = <<>>
    /\ result = <<>>
    /\ dtsProps = NoProps
    /\ jsProps = {}

FindDtsName ==
    /\ pc = "findDtsName"
    /\ result' = findDtsName(dtsPath)
    /\ pc' = "done"
    /\ calls' = Append(calls, "findDtsName")
    /\ UNCHANGED <<hasCurl, dtsPath, sourcePath, dts, header, npm, srcFile,
                   src, names, error, dtsProps, jsProps>>

NextFindDtsName == FindDtsName

SpecFindDtsName == InitFindDtsName /\ [][NextFindDtsName]_vars

(***************************************************************************)
(* checkSource on a declaration whose exported properties are known.       *)
(* dtsProps maps each property the declaration exports to the {start,      *)
(* length} of its declaration, jsProps is the set of properties the        *)
(* JavaScript module exports.                                              *)
(***************************************************************************)
PropNames == {"foo", "bar"}

Positions == {<<67, 11>>, <<0, 32>>}

InitShape ==
    /\ pc = "checkSource"
    /\ hasCurl = TRUE
    /\ dtsPath = NoPath
    /\ sourcePath = NoPath
    /\ dts \in {<<"export", "default">>, <<"export", "=">>}
    /\ header = NoHeader
    /\ npm = NoNpm
    /\ srcFile = NoFile
    /\ src \in {<<"require">>, <<"default">>}
    /\ \E n \in {<<"lodash">>, <<"ember-feature-flags">>} : names = [dts |-> n, src |-> n]
    /\ error = "none"
    /\ calls = <<>>
    /\ result = <<>>
    /\ dtsProps \in UNION {[S -> Positions] : S \in SUBSET PropNames}
    /\ jsProps \in SUBSET PropNames

SpecShape == InitShape /\ [][NextCheckSource]_vars

(***************************************************************************)
(* The vocabulary of the properties.                                       *)
(***************************************************************************)
FindingKinds == {"NoDefaultExport", "NoMatchingNpmPackage", "NoMatchingNpmVersion",
                 "NonNpmHasMatchingPackage"}

Called(f) == \E i \in DOMAIN calls : calls[i] = f

Contains(s, pat) ==
    \E i \in 1..(Len(s) - Len(pat) + 1) : SubSeq(s, i, i + Len(pat) - 1) = pat

DefaultExportMarkers ==
    {<<"default">>, <<"__esModule">>, <<"react-side-effect">>, <<"@flow">>,
     <<"module.exports", "=", "require">>}

FetchFailureSentinels ==
    {<<"524: A timeout occurred">>, <<"500 Server Error">>, <<"Cannot find package">>,
     <<"Rate exceeded">>}

HasMarker(s) == \E m \in DefaultExportMarkers : Contains(s, m)

HasSentinel(s) == \E m \in FetchFailureSentinels : Contains(s, m)

HasExportDefault(d) == Contains(d, <<"export", "default">>)

HasExportEquals(d) == Contains(d, <<"export", "=">>)

HasAmbientWrapper(d) == \E q \in {"'", "\""} : Contains(d, <<"declare module", q>>)

OnExemptionList(n) ==
    \/ Contains(n, <<"react-native">>)
    \/ n \in {<<"ember-feature-flags">>, <<"material-ui-datatables">>}

SquatterAllowList ==
    {<<"atom">>, <<"ember__string">>, <<"fancybox">>, <<"jsqrcode">>, <<"node">>,
     <<"geojson">>, <<"titanium">>}

\* the declaration has an 'export default' that the JavaScript text s does not support
UnsupportedExportDefault(n, d, s) ==
    /\ HasExportDefault(d) /\ ~HasExportEquals(d) /\ ~HasAmbientWrapper(d)
    /\ ~OnExemptionList(n)
    /\ ~HasMarker(s) /\ ~HasSentinel(s)

NpmPackageExists == npm.kind = "package"

Reported == IF error \in FindingKinds THEN {error} ELSE {}

\* C1: a default-export marker or a fetch-failure sentinel in the JavaScript
\* text suppresses the NoDefaultExport finding, whatever the name and the
\* declaration.
C1_MarkerOrSentinelSuppresses ==
    (Called("checkSource") /\ (HasMarker(src) \/ HasSentinel(src)))
        => error # "NoDefaultExport"

C1_Witness ==
    /\ Called("checkSource")
    /\ HasExportDefault(dts) /\ ~HasExportEquals(dts) /\ ~HasAmbientWrapper(dts)
    /\ ~OnExemptionList(names.dts)
    /\ HasSentinel(src) /\ ~HasMarker(src)
    /\ error = "none"

\* C2: checkSource reports NoDefaultExport exactly when the declaration has
\* 'export default', no 'export =' and no ambient-module wrapper, the name is
\* not exempt, and the JavaScript text has no marker and no sentinel.
C2_NoDefaultExportExactly ==
    Called("checkSource")
        => (error = "NoDefaultExport" <=> UnsupportedExportDefault(names.dts, dts, src))

C2_Witness ==
    /\ Called("checkSource")
    /\ error = "NoDefaultExport"
    /\ pc = "threw"

\* C3: 'export default' inside an ambient-module wrapper never yields
\* NoDefaultExport, whatever the name and the JavaScript text.
C3_AmbientWrapperExcluded ==
    (Called("checkSource") /\ HasExportDefault(dts) /\ HasAmbientWrapper(dts))
        => error # "NoDefaultExport"

C3_Witness ==
    /\ Called("checkSource")
    /\ HasExportDefault(dts) /\ HasAmbientWrapper(dts) /\ ~HasExportEquals(dts)
    /\ ~OnExemptionList(names.dts)
    /\ ~HasMarker(src) /\ ~HasSentinel(src)
    /\ pc = "done"

\* C4: a detected mismatch never aborts the check by throwing (it becomes a
\* Diagnostic of the returned list).
C4_MismatchNeverThrows ==
    error \in FindingKinds => pc # "threw"

\* the findings that apply to the inputs of the run
ApplicableFindings ==
    LET n == findDtsName(dtsPath)
    IN {k \in FindingKinds :
          \/ /\ k = "NoMatchingNpmPackage"
             /\ sourcePath = NoPath /\ ~NpmPackageExists
             /\ (~header.present \/ ~header.nonNpm)
          \/ /\ k = "NonNpmHasMatchingPackage"
             /\ sourcePath = NoPath /\ NpmPackageExists
             /\ header.present /\ header.nonNpm /\ n \notin SquatterAllowList
          \/ /\ k = "NoMatchingNpmVersion"
             /\ sourcePath = NoPath /\ NpmPackageExists
             /\ header.present /\ ~header.nonNpm
             /\ ~\E v \in npm.versions :
                    v.valid /\ v.major = header.libraryMajorVersion
                            /\ v.minor = header.libraryMinorVersion
          \/ /\ k = "NoDefaultExport"
             /\ header.present /\ ~header.nonNpm
             /\ srcFile.ok /\ UnsupportedExportDefault(n, dts, srcFile.text)}

\* C5: when several findings apply to the inputs of a run, the finished run
\* has reported every one of them.
C5_EveryApplicableFindingReported ==
    (pc \in {"done", "threw"} /\ hasCurl /\ Cardinality(ApplicableFindings) > 1)
        => ApplicableFindings \subseteq Reported

\* what checkSource hands back: the thrown finding, if any
Diagnostics ==
    IF error \in FindingKinds
    THEN {[kind |-> error, property |-> "", position |-> <<>>]}
    ELSE {}

\* C6: for every property the declaration exports and the JavaScript module
\* does not, checkSource yields exactly one DtsPropertyNotInJs diagnostic
\* naming it, positioned at the property's declaration.
C6_OneDiagnosticPerMissingProperty ==
    Called("checkSource")
        => \A p \in (DOMAIN dtsProps) \ jsProps :
              Cardinality({d \in Diagnostics :
                              /\ d.kind = "DtsPropertyNotInJs"
                              /\ d.property = p
                              /\ d.position = dtsProps[p]}) = 1

\* C7: without a source path, a failed registry lookup yields
\* NoMatchingNpmPackage unless the header is marked non-npm, and then the
\* run ends without any finding.
C7_FailedLookup ==
    (Called("findNames") /\ sourcePath = NoPath /\ ~NpmPackageExists)
        => IF header.present /\ header.nonNpm
           THEN error = "none" /\ pc = "done" /\ Reported = {}
           ELSE error = "NoMatchingNpmPackage" /\ pc = "threw"

C7_Witness ==
    /\ Called("findNames") /\ sourcePath = NoPath /\ ~NpmPackageExists
    /\ header.present /\ header.nonNpm
    /\ pc = "done"

\* C8: without a source path, a non-npm header whose name is an existing npm
\* package yields NonNpmHasMatchingPackage, except for the names of the
\* squatter allow-list, which never yield it.
C8_NonNpmConflict ==
    (Called("findNames") /\ sourcePath = NoPath /\ header.present /\ header.nonNpm
                         /\ NpmPackageExists)
        => IF findDtsName(dtsPath) \in SquatterAllowList
           THEN error # "NonNpmHasMatchingPackage"
           ELSE error = "NonNpmHasMatchingPackage" /\ pc = "threw"

C8_Witness ==
    /\ Called("findNames") /\ sourcePath = NoPath /\ header.present /\ header.nonNpm
    /\ NpmPackageExists
    /\ findDtsName(dtsPath) = <<"tslib">>
    /\ error = "NonNpmHasMatchingPackage"

\* the base name of the resolved path and the directory that contains it
FileBase == LET r == resolve(dtsPath) IN IF r = <<>> THEN <<>> ELSE r[Len(r)]

ContainingDir == LET r == resolve(dtsPath) IN IF Len(r) <= 1 THEN <<>> ELSE r[Len(r) - 1]

EndsWithDts(b) == Len(b) > 0 /\ b[Len(b)] = ".d.ts"

WithoutDts(b) == IF EndsWithDts(b) THEN SubSeq(b, 1, Len(b) - 1) ELSE b

\* C9 as stated: findDtsName returns the base name without its trailing
\* '.d.ts' when that is non-empty and not 'index', and the name of the
\* containing directory otherwise.
C9_Original ==
    pc = "done"
        => result = IF WithoutDts(FileBase) # <<>> /\ WithoutDts(FileBase) # <<"index">>
                    THEN WithoutDts(FileBase)
                    ELSE ContainingDir

\* a base name that is '.d.ts' and nothing else keeps it
WithoutDtsSuffix(b) == IF b = <<".d.ts">> THEN b ELSE WithoutDts(b)

\* C9 amended: findDtsName returns the base name without its trailing '.d.ts'
\* (a base name that is exactly '.d.ts' is kept whole) when that is non-empty
\* and not 'index', and the name of the containing directory otherwise; the
\* './'-prefixed and the bare 'index.d.ts' yield the working directory's name.
C9_FindDtsName ==
    pc = "done"
        => /\ result = IF /\ WithoutDtsSuffix(FileBase) # <<>>
                          /\ WithoutDtsSuffix(FileBase) # <<"index">>
                       THEN WithoutDtsSuffix(FileBase)
                       ELSE ContainingDir
           /\ dtsPath.segs \in {<< <<"index", ".d.ts">> >>, << <<".">>, <<"index", ".d.ts">> >>}
                 => result = IF dtsPath.abs THEN <<>> ELSE <<"dts-critic">>

C9_Witness ==
    /\ pc = "done"
    /\ dtsPath = [abs |-> FALSE, segs |-> << <<"jquery">>, <<"index", ".d.ts">> >>]
    /\ result = <<"jquery">>

FindNamesErrors == {"NamesMismatch", "NoMatchingNpmPackage", "NoMatchingNpmVersion",
                    "NonNpmHasMatchingPackage"}

\* C10: the source is read and checked only after findNames has returned
\* without an error and only under a parseable header that is not non-npm;
\* otherwise NoDefaultExport is never reported, source path or not.
C10_SourceCheckedAfterNames ==
    /\ Called("readSource")
          => /\ calls[1] = "findNames"
             /\ names = [dts |-> findDtsName(dtsPath), src |-> names.src]
             /\ error \notin FindNamesErrors
             /\ header.present /\ ~header.nonNpm
    /\ Called("checkSource") => calls = <<"findNames", "readSource", "checkSource">>
    /\ (~header.present \/ header.nonNpm)
          => error # "NoDefaultExport" /\ ~Called("readSource") /\ ~Called("checkSource")

C10_Witness ==
    /\ calls = <<"findNames", "readSource", "checkSource">>
    /\ sourcePath # NoPath
    /\ error = "NoDefaultExport"

====
